---- MODULE Spec2Model ----
(***************************************************************************)
(* State-machine model of src/src/app.ts: the project store (ProjectState),*)
(* the validator, the input form (ProjectInput) and the two drop-target    *)
(* lists (ProjectList) with their rendered items (ProjectItem).            *)
(*                                                                         *)
(* Strings are sequences of one-character strings, so that length and trim *)
(* are computed as the code computes them.  Project objects live in a heap *)
(* (a sequence indexed by reference); the store's array, the snapshots     *)
(* handed to listeners and the lists' assignedProjects hold references.    *)
(***************************************************************************)
EXTENDS Integers, Sequences, FiniteSets, TLC

\* ------------------------------------------------------------------ bounds
MaxProjects == 2
MaxStrLen == 5
MaxPeopleLen == 2

\* ----------------------------------------------------------------- strings
Rep(c, n) == [i \in 1..n |-> c]

Strings(alphabet, n) == UNION {[1..k -> alphabet] : k \in 0..n}

WhiteSpace == {" "}

Digits == {"0", "1", "2", "3", "4", "5", "6", "7", "8", "9"}

DigitValue(c) ==
  CASE c = "0" -> 0 [] c = "1" -> 1 [] c = "2" -> 2 [] c = "3" -> 3
    [] c = "4" -> 4 [] c = "5" -> 5 [] c = "6" -> 6 [] c = "7" -> 7
    [] c = "8" -> 8 [] c = "9" -> 9

DigitChar(d) ==
  CASE d = 0 -> "0" [] d = 1 -> "1" [] d = 2 -> "2" [] d = 3 -> "3"
    [] d = 4 -> "4" [] d = 5 -> "5" [] d = 6 -> "6" [] d = 7 -> "7"
    [] d = 8 -> "8" [] d = 9 -> "9"

RECURSIVE trimStart(_)
trimStart(s) ==
  IF s # <<>> /\ Head(s) \in WhiteSpace THEN trimStart(Tail(s)) ELSE s

RECURSIVE trimEnd(_)
trimEnd(s) ==
  IF s # <<>> /\ s[Len(s)] \in WhiteSpace
    THEN trimEnd(SubSeq(s, 1, Len(s) - 1))
    ELSE s

\* String.prototype.trim
trim(s) == trimEnd(trimStart(s))

\* ----------------------------------------------------------------- numbers
\* A JavaScript number: NaN, or a non-negative integer (the only numbers the
\* input alphabet can produce).
NaN == [nan |-> TRUE, num |-> 0]

Num(n) == [nan |-> FALSE, num |-> n]

RECURSIVE DecimalValue(_, _)
DecimalValue(s, acc) ==
  IF s = <<>> THEN acc
  ELSE DecimalValue(Tail(s), 10 * acc + DigitValue(Head(s)))

\* unary plus on a string: whitespace is trimmed, the empty string is 0,
\* a run of decimal digits is its value, anything else is NaN
ToNumber(s) ==
  LET t == trim(s)
  IN IF t = <<>> THEN Num(0)
     ELSE IF \A i \in 1..Len(t) : t[i] \in Digits THEN Num(DecimalValue(t, 0))
     ELSE NaN

RECURSIVE NatToString(_)
NatToString(n) ==
  IF n < 10 THEN <<DigitChar(n)>>
  ELSE Append(NatToString(n \div 10), DigitChar(n % 10))

\* a Validatable's value: string | number
StringValue(s) == [type |-> "string", str |-> s, nan |-> FALSE, num |-> 0]

NumberValue(x) == [type |-> "number", str |-> <<>>, nan |-> x.nan, num |-> x.num]

\* value.toString()
toString(value) ==
  IF value.type = "string" THEN value.str
  ELSE IF value.nan THEN <<"N", "a", "N">>
  ELSE NatToString(value.num)

\* --------------------------------------------------------------- validation
\* faulty variant of validate: the minLength comparison is strict
validateStrictMinLength(validatebleInput) ==
  LET v == validatebleInput
      has(f) == f \in DOMAIN v
      isValid1 ==
        IF has("required") /\ v.required
          THEN Len(trim(toString(v.value))) # 0
          ELSE TRUE
      isValid2 ==
        IF has("minLength") /\ v.value.type = "string"
          THEN isValid1 /\ Len(v.value.str) > v.minLength
          ELSE isValid1
      isValid3 ==
        IF has("maxLength") /\ v.value.type = "string"
          THEN isValid2 /\ Len(v.value.str) <= v.maxLength
          ELSE isValid2
      isValid4 ==
        IF has("min") /\ v.value.type = "number"
          THEN isValid3 /\ ~v.value.nan /\ v.value.num >= v.min
          ELSE isValid3
      isValid5 ==
        IF has("max") /\ v.value.type = "number"
          THEN isValid4 /\ ~v.value.nan /\ v.value.num <= v.max
          ELSE isValid4
  IN isValid5

\* validate(validatebleInput): an absent optional field of the Validatable is
\* an absent record field
validate(validatebleInput) ==
  LET v == validatebleInput
      has(f) == f \in DOMAIN v
      isValid1 ==
        IF has("required") /\ v.required
          THEN Len(trim(toString(v.value))) # 0
          ELSE TRUE
      isValid2 ==
        IF has("minLength") /\ v.value.type = "string"
          THEN isValid1 /\ Len(v.value.str) >= v.minLength
          ELSE isValid1
      isValid3 ==
        IF has("maxLength") /\ v.value.type = "string"
          THEN isValid2 /\ Len(v.value.str) <= v.maxLength
          ELSE isValid2
      isValid4 ==
        IF has("min") /\ v.value.type = "number"
          THEN isValid3 /\ ~v.value.nan /\ v.value.num >= v.min
          ELSE isValid3
      isValid5 ==
        IF has("max") /\ v.value.type = "number"
          THEN isValid4 /\ ~v.value.nan /\ v.value.num <= v.max
          ELSE isValid4
  IN isValid5

\* the three Validatables gatherUserInput builds from the form fields
titleValidatable(title) ==
  [value |-> StringValue(title), required |-> TRUE]

descriptionValidatable(description) ==
  [value |-> StringValue(description), required |-> TRUE, minLength |-> 5]

peopleValidatable(people) ==
  [value |-> NumberValue(ToNumber(people)), required |-> TRUE,
   min |-> 1, max |-> 5]

\* ------------------------------------------------------------ project type
Active == "Active"

Finished == "Finished"

ProjectStatus == {Active, Finished}

Project(id, title, description, people, status) ==
  [id |-> id, title |-> title, description |-> description,
   people |-> people, status |-> status]

\* the two ProjectList instances, named by their type
ListTypes == {"active", "finished"}

\* this.type === 'active' ? ProjectStatus.Active : ProjectStatus.Finished
StatusOf(type) == IF type = "active" THEN Active ELSE Finished

\* results Math.random().toString() can give; two draws may coincide
Ids == {"0.1", "0.2"}

\* what the user can type into the three form fields
TitleInputs == {<<>>, <<"a">>}

DescriptionInputs == {<<>>, Rep("a", 4), Rep("a", 5), Rep(" ", 5)}

PeopleInputs == {<<>>, <<"1">>, <<"6">>}

\* --------------------------------------------------------------------- state
VARIABLES
  pc,                 \* position in the start-up script (lines 338-340)
  listeners,          \* State.listeners: the lists whose closure is registered
  heap,               \* the Project objects, indexed by reference
  projects,           \* ProjectState.projects: references, in array order
  assignedProjects,   \* ProjectList.assignedProjects, per list: references
  rendered,           \* the <li> children of each list's <ul>
  droppable,          \* whether each list's <ul> has the class 'droppable'
  titleInputEl,       \* value of the #title field
  descriptionInputEl, \* value of the #description field
  peopleInputEl,      \* value of the #people field
  called,             \* store operations the last handler called
  notified,           \* listener invocations the last handler caused
  alerted,            \* whether the last handler raised the alert
  validatebleInput,   \* argument of a stand-alone validate call
  isValid             \* <<>> before the call, <<result>> after it

vars ==
  <<pc, listeners, heap, projects, assignedProjects, rendered, droppable,
    titleInputEl, descriptionInputEl, peopleInputEl, called, notified,
    alerted, validatebleInput, isValid>>

formVars == <<titleInputEl, descriptionInputEl, peopleInputEl>>

storeVars == <<heap, projects>>

listVars == <<assignedProjects, rendered>>

validateVars == <<validatebleInput, isValid>>

\* the store's project list as values, in array order
StoreList == [i \in 1..Len(projects) |-> heap[projects[i]]]

\* ------------------------------------------------------------- project item
\* get persons()
persons(project) ==
  IF project.people = Num(1)
    THEN <<"1", "person">>
    ELSE <<toString(NumberValue(project.people)), "persons">>

\* new ProjectItem(hostId, project): the <li> with its id and its rendered
\* texts, holding a reference to the project
ProjectItem(ref, h) ==
  [id |-> h[ref].id,
   h2 |-> h[ref].title,
   h3 |-> <<persons(h[ref]), "assigned">>,
   p |-> h[ref].description,
   project |-> ref]

\* dragStartHandler: the drag data store holds the item's project id
dragStartHandler(item, h) ==
  [types |-> <<"text/plain">>, text |-> h[item.project].id]

\* ------------------------------------------------------------- project list
\* renderProjects: the <ul> is emptied, then one item per assigned project
renderProjects(assigned, h) ==
  [i \in 1..Len(assigned) |-> ProjectItem(assigned[i], h)]

\* faulty variant of relevantProjects: the status filter is missing
relevantProjectsNoFilter(type, items, h) == items

\* the closure registered by ProjectList.configure, called with a snapshot
relevantProjects(type, items, h) ==
  SelectSeq(items, LAMBDA ref : h[ref].status = StatusOf(type))

\* --------------------------------------------------------------- the store
\* this.projects.slice()
slice(ps) == [i \in 1..Len(ps) |-> ps[i]]

\* updateListeners, from listener number i on; ui carries the lists' fields
\* and the record of the invocations made so far
RECURSIVE updateListenersFrom(_, _, _, _)
updateListenersFrom(i, h, ps, ui) ==
  IF i > Len(listeners) THEN ui
  ELSE
    LET type == listeners[i]
        items == slice(ps)
        relevant == relevantProjects(type, items, h)
    IN updateListenersFrom(i + 1, h, ps,
         [assignedProjects |->
            [ui.assignedProjects EXCEPT ![type] = relevant],
          rendered |->
            [ui.rendered EXCEPT ![type] = renderProjects(relevant, h)],
          notified |->
            Append(ui.notified,
                   [listener |-> type,
                    items |-> [k \in 1..Len(items) |-> h[items[k]]]])])

\* faulty variant of updateListeners: the first listener is skipped
updateListenersSkipFirst(h, ps) ==
  updateListenersFrom(2, h, ps,
    [assignedProjects |-> assignedProjects, rendered |-> rendered,
     notified |-> <<>>])

updateListeners(h, ps) ==
  updateListenersFrom(1, h, ps,
    [assignedProjects |-> assignedProjects, rendered |-> rendered,
     notified |-> <<>>])

\* faulty variant of addProject: the new project starts Finished
addProjectFinished(title, description, numPeople, id) ==
  LET newProject == Project(id, title, description, numPeople, Finished)
      ref == Len(heap) + 1
      h == Append(heap, newProject)
      ps == Append(projects, ref)
      ui == updateListeners(h, ps)
  IN [heap |-> h, projects |-> ps,
      assignedProjects |-> ui.assignedProjects, rendered |-> ui.rendered,
      notified |-> ui.notified]

\* faulty variant of addProject: unshift instead of push
addProjectPrepend(title, description, numPeople, id) ==
  LET newProject == Project(id, title, description, numPeople, Active)
      ref == Len(heap) + 1
      h == Append(heap, newProject)
      ps == <<ref>> \o projects
      ui == updateListeners(h, ps)
  IN [heap |-> h, projects |-> ps,
      assignedProjects |-> ui.assignedProjects, rendered |-> ui.rendered,
      notified |-> ui.notified]

\* addProject(title, description, numPeople); id is Math.random().toString()
addProject(title, description, numPeople, id) ==
  LET newProject == Project(id, title, description, numPeople, Active)
      ref == Len(heap) + 1
      h == Append(heap, newProject)
      ps == Append(projects, ref)
      ui == updateListeners(h, ps)
  IN [heap |-> h, projects |-> ps,
      assignedProjects |-> ui.assignedProjects, rendered |-> ui.rendered,
      notified |-> ui.notified]

\* faulty variant of find: the last match instead of the first
findLast(projectId) ==
  LET matches == {i \in 1..Len(projects) : heap[projects[i]].id = projectId}
  IN IF matches = {} THEN 0
     ELSE projects[CHOOSE i \in matches : \A j \in matches : i >= j]

\* this.projects.find(proj => proj.id === projectId): 0 when undefined
find(projectId) ==
  LET matches == {i \in 1..Len(projects) : heap[projects[i]].id = projectId}
  IN IF matches = {} THEN 0
     ELSE projects[CHOOSE i \in matches : \A j \in matches : i <= j]

\* faulty variant of moveProject: the listeners are called before the
\* status is assigned
moveProjectNotifyFirst(projectId, newStatus) ==
  LET project == find(projectId)
  IN IF project # 0 /\ heap[project].status # newStatus
       THEN
         LET ui == updateListeners(heap, projects)
             h == [heap EXCEPT ![project].status = newStatus]
         IN [heap |-> h, projects |-> projects,
             assignedProjects |-> ui.assignedProjects,
             rendered |-> ui.rendered, notified |-> ui.notified]
       ELSE
         [heap |-> heap, projects |-> projects,
          assignedProjects |-> assignedProjects, rendered |-> rendered,
          notified |-> <<>>]

\* faulty variant of moveProject: the status comparison is missing
moveProjectAlwaysNotify(projectId, newStatus) ==
  LET project == find(projectId)
  IN IF project # 0
       THEN
         LET h == [heap EXCEPT ![project].status = newStatus]
             ui == updateListeners(h, projects)
         IN [heap |-> h, projects |-> projects,
             assignedProjects |-> ui.assignedProjects,
             rendered |-> ui.rendered, notified |-> ui.notified]
       ELSE
         [heap |-> heap, projects |-> projects,
          assignedProjects |-> assignedProjects, rendered |-> rendered,
          notified |-> <<>>]

\* moveProject(projectId, newStatus)
moveProject(projectId, newStatus) ==
  LET project == find(projectId)
  IN IF project # 0 /\ heap[project].status # newStatus
       THEN
         LET h == [heap EXCEPT ![project].status = newStatus]
             ui == updateListeners(h, projects)
         IN [heap |-> h, projects |-> projects,
             assignedProjects |-> ui.assignedProjects,
             rendered |-> ui.rendered, notified |-> ui.notified]
       ELSE
         [heap |-> heap, projects |-> projects,
          assignedProjects |-> assignedProjects, rendered |-> rendered,
          notified |-> <<>>]

\* ---------------------------------------------------------------- the form
\* faulty variant of gatherUserInput: the description is not validated
gatherUserInputNoDescription ==
  LET title == titleInputEl
      description == descriptionInputEl
      people == peopleInputEl
  IN IF \/ ~validate(titleValidatable(title))
        \/ ~validate(peopleValidatable(people))
       THEN [alert |-> TRUE, tuple |-> <<>>]
       ELSE [alert |-> FALSE,
             tuple |-> <<title, description, ToNumber(people)>>]

\* gatherUserInput: the tuple, or the alert
gatherUserInput ==
  LET title == titleInputEl
      description == descriptionInputEl
      people == peopleInputEl
  IN IF \/ ~validate(titleValidatable(title))
        \/ ~validate(descriptionValidatable(description))
        \/ ~validate(peopleValidatable(people))
       THEN [alert |-> TRUE, tuple |-> <<>>]
       ELSE [alert |-> FALSE,
             tuple |-> <<title, description, ToNumber(people)>>]

\* clearInputs
clearInputs ==
  /\ titleInputEl' = <<>>
  /\ descriptionInputEl' = <<>>
  /\ peopleInputEl' = <<>>

\* --------------------------------------------------------------- start-up
Init ==
  /\ pc = "projInput"
  /\ listeners = <<>>
  /\ heap = <<>>
  /\ projects = <<>>
  /\ assignedProjects = [t \in ListTypes |-> <<>>]
  /\ rendered = [t \in ListTypes |-> <<>>]
  /\ droppable = [t \in ListTypes |-> FALSE]
  /\ titleInputEl = <<>>
  /\ descriptionInputEl = <<>>
  /\ peopleInputEl = <<>>
  /\ called = <<>>
  /\ notified = <<>>
  /\ alerted = FALSE
  /\ validatebleInput = titleValidatable(<<>>)
  /\ isValid = <<>>

\* State.addListener
addListener(listenerFn) == Append(listeners, listenerFn)

\* const projInput = new ProjectInput()
NewProjectInput ==
  /\ pc = "projInput"
  /\ pc' = "activeProjList"
  /\ UNCHANGED <<listeners, storeVars, listVars, droppable, formVars,
                 called, notified, alerted, validateVars>>

\* new ProjectList(type): assignedProjects = [], then configure registers
\* the list's listener
ProjectListConstructor(type) ==
  /\ assignedProjects' = [assignedProjects EXCEPT ![type] = <<>>]
  /\ listeners' = addListener(type)
  /\ UNCHANGED <<storeVars, rendered, droppable, formVars, called, notified,
                 alerted, validateVars>>

\* const activeProjList = new ProjectList('active')
NewActiveProjList ==
  /\ pc = "activeProjList"
  /\ pc' = "finishedProjList"
  /\ ProjectListConstructor("active")

\* const finishedProjList = new ProjectList('finished')
NewFinishedProjList ==
  /\ pc = "finishedProjList"
  /\ pc' = "ready"
  /\ ProjectListConstructor("finished")

\* ------------------------------------------------------------ user events
\* the user edits a form field
InputTitle ==
  /\ pc = "ready"
  /\ \E s \in TitleInputs : titleInputEl' = s
  /\ called' = <<>> /\ notified' = <<>> /\ alerted' = FALSE
  /\ UNCHANGED <<pc, listeners, storeVars, listVars, droppable,
                 descriptionInputEl, peopleInputEl, validateVars>>

InputDescription ==
  /\ pc = "ready"
  /\ \E s \in DescriptionInputs : descriptionInputEl' = s
  /\ called' = <<>> /\ notified' = <<>> /\ alerted' = FALSE
  /\ UNCHANGED <<pc, listeners, storeVars, listVars, droppable,
                 titleInputEl, peopleInputEl, validateVars>>

InputPeople ==
  /\ pc = "ready"
  /\ \E s \in PeopleInputs : peopleInputEl' = s
  /\ called' = <<>> /\ notified' = <<>> /\ alerted' = FALSE
  /\ UNCHANGED <<pc, listeners, storeVars, listVars, droppable,
                 titleInputEl, descriptionInputEl, validateVars>>

\* submitHandler
submitHandler ==
  /\ pc = "ready"
  /\ LET userInput == gatherUserInput
     IN IF ~userInput.alert
          THEN
            /\ Len(projects) < MaxProjects
            /\ \E id \in Ids :
                 LET r == addProject(userInput.tuple[1], userInput.tuple[2],
                                     userInput.tuple[3], id)
                 IN /\ heap' = r.heap
                    /\ projects' = r.projects
                    /\ assignedProjects' = r.assignedProjects
                    /\ rendered' = r.rendered
                    /\ notified' = r.notified
            /\ called' = <<[op |-> "addProject", args |-> userInput.tuple]>>
            /\ alerted' = FALSE
            /\ clearInputs
          ELSE
            /\ alerted' = TRUE
            /\ called' = <<>>
            /\ notified' = <<>>
            /\ UNCHANGED <<storeVars, listVars, formVars>>
  /\ UNCHANGED <<pc, listeners, droppable, validateVars>>

\* the drag data stores a drag event can carry: set by an item's
\* dragStartHandler, or by a drag that started elsewhere
ForeignDataTransfers ==
  {[types |-> <<"text/plain">>, text |-> "zz"],
   [types |-> <<"text/html", "text/plain">>, text |-> "zz"]}

DataTransfers ==
  UNION {{dragStartHandler(rendered[t][k], heap) :
            k \in 1..Len(rendered[t])} : t \in ListTypes}
    \cup ForeignDataTransfers

\* event.dataTransfer.getData('text/plain')
getData(dataTransfer) ==
  IF \E i \in 1..Len(dataTransfer.types) : dataTransfer.types[i] = "text/plain"
    THEN dataTransfer.text
    ELSE ""

\* dragOverHandler
dragOverHandler(type, dataTransfer) ==
  /\ pc = "ready"
  /\ droppable' =
       IF dataTransfer.types # <<>> /\ dataTransfer.types[1] = "text/plain"
         THEN [droppable EXCEPT ![type] = TRUE]
         ELSE droppable
  /\ called' = <<>> /\ notified' = <<>> /\ alerted' = FALSE
  /\ UNCHANGED <<pc, listeners, storeVars, listVars, formVars, validateVars>>

\* dragLeaveHandler
dragLeaveHandler(type) ==
  /\ pc = "ready"
  /\ droppable' = [droppable EXCEPT ![type] = FALSE]
  /\ called' = <<>> /\ notified' = <<>> /\ alerted' = FALSE
  /\ UNCHANGED <<pc, listeners, storeVars, listVars, formVars, validateVars>>

\* dropHandler
dropHandler(type, dataTransfer) ==
  /\ pc = "ready"
  /\ LET projectId == getData(dataTransfer)
         r == moveProject(projectId, StatusOf(type))
     IN /\ heap' = r.heap
        /\ projects' = r.projects
        /\ assignedProjects' = r.assignedProjects
        /\ rendered' = r.rendered
        /\ notified' = r.notified
        /\ called' = <<[op |-> "moveProject",
                        args |-> <<projectId, StatusOf(type)>>]>>
  /\ alerted' = FALSE
  /\ UNCHANGED <<pc, listeners, droppable, formVars, validateVars>>

DragOver == \E t \in ListTypes, dt \in DataTransfers : dragOverHandler(t, dt)

DragLeave == \E t \in ListTypes : dragLeaveHandler(t)

Drop == \E t \in ListTypes, dt \in DataTransfers : dropHandler(t, dt)

Next ==
  \/ NewProjectInput
  \/ NewActiveProjList
  \/ NewFinishedProjList
  \/ InputTitle
  \/ InputDescription
  \/ InputPeople
  \/ submitHandler
  \/ DragOver
  \/ DragLeave
  \/ Drop

Spec == Init /\ [][Next]_vars

\* ------------------------------------------- validate as a pure function
\* the Validatables gatherUserInput builds, over all field contents up to
\* the length bounds
TextChars == {"a", " "}

PeopleChars == {"0", "1", "2", "3", "4", "5", "6", "x"}

ValidateInputs ==
  {titleValidatable(s) : s \in Strings(TextChars, MaxStrLen)}
    \cup {descriptionValidatable(s) : s \in Strings(TextChars, MaxStrLen)}
    \cup {peopleValidatable(s) : s \in Strings(PeopleChars, MaxPeopleLen)}

InitValidate ==
  /\ pc = "projInput"
  /\ listeners = <<>>
  /\ heap = <<>>
  /\ projects = <<>>
  /\ assignedProjects = [t \in ListTypes |-> <<>>]
  /\ rendered = [t \in ListTypes |-> <<>>]
  /\ droppable = [t \in ListTypes |-> FALSE]
  /\ titleInputEl = <<>>
  /\ descriptionInputEl = <<>>
  /\ peopleInputEl = <<>>
  /\ called = <<>>
  /\ notified = <<>>
  /\ alerted = FALSE
  /\ validatebleInput \in ValidateInputs
  /\ isValid = <<>>

CallValidate ==
  /\ isValid = <<>>
  /\ isValid' = <<validate(validatebleInput)>>
  /\ UNCHANGED <<pc, listeners, storeVars, listVars, droppable, formVars,
                 called, notified, alerted, validatebleInput>>

NextValidate == CallValidate

SpecValidate == InitValidate /\ [][NextValidate]_vars

\* ================================================================ properties
IsPrefix(s, t) == Len(s) <= Len(t) /\ SubSeq(t, 1, Len(s)) = s

\* the handler of the last step called addProject / moveProject
CalledAdd == called # <<>> /\ called[1].op = "addProject"

CalledMove == called # <<>> /\ called[1].op = "moveProject"

\* positions in the store's list of the projects with the given id
Matches(id) == {i \in 1..Len(projects) : StoreList[i].id = id}

FirstMatch(id) == CHOOSE i \in Matches(id) : \A j \in Matches(id) : i <= j

\* the listeners invoked by the last handler, in invocation order
NotifiedListeners == [i \in 1..Len(notified) |-> notified[i].listener]

\* a project without its status
Fixed(project) ==
  [id |-> project.id, title |-> project.title,
   description |-> project.description, people |-> project.people]

\* C1: every addProject call adds exactly one project: it is appended at the
\* end, carries the title, description and people count passed, has status
\* Active, and every project already stored is left as it was.
C1_AddProjectAppendsActive ==
  [][CalledAdd' =>
       /\ Len(projects') = Len(projects) + 1
       /\ SubSeq(StoreList', 1, Len(projects)) = StoreList
       /\ LET new == StoreList'[Len(projects')]
              args == called'[1].args
          IN /\ new.title = args[1]
             /\ new.description = args[2]
             /\ new.people = args[3]
             /\ new.status = Active]_vars

C1_Witness ==
  /\ CalledAdd
  /\ Len(projects) = 2
  /\ StoreList[2].status = Active
  /\ StoreList[2].people = Num(1)
  /\ StoreList[2].title = <<"a">>

\* C2: every listener invocation receives the store's complete list with the
\* mutation applied, and every mutation reaches every registered listener.
C2_SnapshotIsCurrentList ==
  [][/\ \A i \in 1..Len(notified') : notified'[i].items = StoreList'
     /\ StoreList' # StoreList =>
          {notified'[i].listener : i \in 1..Len(notified')}
            = {listeners'[i] : i \in 1..Len(listeners')}]_vars

C2_Witness ==
  /\ CalledMove
  /\ Len(notified) = 2
  /\ Len(projects) = 2
  /\ \E i \in 1..2 : notified[1].items[i].status = Finished

\* C3: moveProject with an id no stored project has, or with the status the
\* project found already has, invokes no listener and leaves the store's list
\* unchanged.
C3_MoveNoOp ==
  [][(/\ CalledMove'
      /\ LET id == called'[1].args[1]
             newStatus == called'[1].args[2]
         IN \/ Matches(id) = {}
            \/ StoreList[FirstMatch(id)].status = newStatus)
       => /\ notified' = <<>>
          /\ projects' = projects
          /\ heap' = heap
          /\ StoreList' = StoreList]_vars

C3_Witness ==
  /\ CalledMove
  /\ notified = <<>>
  /\ Matches(called[1].args[1]) # {}
  /\ StoreList[FirstMatch(called[1].args[1])].status = Finished
  /\ called[1].args[2] = Finished

\* C4: moveProject with the id of a stored project whose status differs sets
\* the status of the first project with that id, notifies the listeners with
\* the new list, and changes nothing else in the list.
C4_MoveChangesOneStatus ==
  [][(/\ CalledMove'
      /\ Matches(called'[1].args[1]) # {}
      /\ StoreList[FirstMatch(called'[1].args[1])].status # called'[1].args[2])
       => /\ StoreList' =
               [StoreList EXCEPT
                  ![FirstMatch(called'[1].args[1])].status = called'[1].args[2]]
          /\ projects' = projects
          /\ Len(notified') = Len(listeners)
          /\ \A i \in 1..Len(notified') : notified'[i].items = StoreList']_vars

C4_Witness ==
  /\ CalledMove
  /\ notified # <<>>
  /\ Len(projects) = 2
  /\ StoreList[1].id = StoreList[2].id
  /\ called[1].args = <<StoreList[1].id, Finished>>
  /\ StoreList[1].status = Finished
  /\ StoreList[2].status = Active

\* C5 as stated: an empty title is invalid; a description of length 4 is
\* invalid and every description of length 5 is valid; people 0 is invalid,
\* 1 to 5 are valid, 6 is invalid.
C5_Original ==
  isValid # <<>> =>
    LET v == validatebleInput.value
    IN /\ validatebleInput = titleValidatable(<<>>) => isValid = <<FALSE>>
       /\ (validatebleInput = descriptionValidatable(v.str) /\ Len(v.str) = 4)
            => isValid = <<FALSE>>
       /\ (validatebleInput = descriptionValidatable(v.str) /\ Len(v.str) = 5)
            => isValid = <<TRUE>>
       /\ (v.type = "number" /\ DOMAIN validatebleInput = DOMAIN peopleValidatable(<<>>))
            => /\ (~v.nan /\ v.num = 0) => isValid = <<FALSE>>
               /\ (~v.nan /\ v.num \in 1..5) => isValid = <<TRUE>>
               /\ (~v.nan /\ v.num = 6) => isValid = <<FALSE>>

\* C5 (amended): an empty title is invalid; a description of length 4 is
\* invalid; a description of length 5 is valid exactly if it is not made of
\* whitespace only; people 0 is invalid, 1 to 5 are valid, 6 is invalid.
C5_ValidateBoundaries ==
  isValid # <<>> =>
    LET v == validatebleInput.value
    IN /\ validatebleInput = titleValidatable(<<>>) => isValid = <<FALSE>>
       /\ (validatebleInput = descriptionValidatable(v.str) /\ Len(v.str) = 4)
            => isValid = <<FALSE>>
       /\ (validatebleInput = descriptionValidatable(v.str) /\ Len(v.str) = 5)
            => isValid = <<\E i \in 1..5 : v.str[i] \notin WhiteSpace>>
       /\ (v.type = "number" /\ DOMAIN validatebleInput = DOMAIN peopleValidatable(<<>>))
            => /\ (~v.nan /\ v.num = 0) => isValid = <<FALSE>>
               /\ (~v.nan /\ v.num \in 1..5) => isValid = <<TRUE>>
               /\ (~v.nan /\ v.num = 6) => isValid = <<FALSE>>

C5_Witness ==
  /\ validatebleInput = descriptionValidatable(<<" ", " ", "a", " ", " ">>)
  /\ isValid = <<TRUE>>

\* C6: listeners are only ever appended (the active list's first, then the
\* finished list's), and every handler that notifies, as every mutation must,
\* invokes each registered listener exactly once, in registration order.
C6_ListenersInRegistrationOrder ==
  [][/\ IsPrefix(listeners, listeners')
     /\ pc' = "ready" => listeners' = <<"active", "finished">>
     /\ (StoreList' # StoreList \/ notified' # <<>>)
          => NotifiedListeners' = listeners']_vars

C6_Witness ==
  /\ CalledMove
  /\ NotifiedListeners = <<"active", "finished">>

\* C7: the store's list is append-only: no project is removed or reordered,
\* id, title, description and people count never change, a project is added
\* only by addProject and a status changes only by moveProject.
C7_AppendOnly ==
  [][/\ IsPrefix(projects, projects')
     /\ Len(StoreList') >= Len(StoreList)
     /\ \A i \in 1..Len(StoreList) : Fixed(StoreList'[i]) = Fixed(StoreList[i])
     /\ Len(StoreList') # Len(StoreList)
          => (CalledAdd' /\ Len(StoreList') = Len(StoreList) + 1)
     /\ (\E i \in 1..Len(StoreList) : StoreList'[i].status # StoreList[i].status)
          => CalledMove']_vars

C7_Witness ==
  /\ CalledAdd
  /\ Len(projects) = 2
  /\ StoreList[1].status = Finished
  /\ Fixed(StoreList[1]) # Fixed(StoreList[2])

\* C8: a submit that fails validation changes neither the store, the lists
\* nor the fields, calls nothing and raises the alert; a submit that passes
\* calls addProject once with the entered values and clears the fields.
InvalidForm ==
  \/ ~validate(titleValidatable(titleInputEl))
  \/ ~validate(descriptionValidatable(descriptionInputEl))
  \/ ~validate(peopleValidatable(peopleInputEl))

C8_SubmitValidatesFirst ==
  [][submitHandler =>
       IF InvalidForm
         THEN /\ called' = <<>>
              /\ notified' = <<>>
              /\ alerted'
              /\ UNCHANGED <<storeVars, listVars, formVars>>
         ELSE /\ called' =
                   <<[op |-> "addProject",
                      args |-> <<titleInputEl, descriptionInputEl,
                                 ToNumber(peopleInputEl)>>]>>
              /\ ~alerted'
              /\ titleInputEl' = <<>>
              /\ descriptionInputEl' = <<>>
              /\ peopleInputEl' = <<>>]_vars

C8_Witness ==
  /\ alerted
  /\ titleInputEl # <<>>
  /\ Len(descriptionInputEl) = 4
  /\ peopleInputEl = <<"1">>
  /\ Len(projects) = 1

\* C9: once the page is set up, each list's assignedProjects and rendered
\* items are exactly the stored projects of its status, in store order, so
\* every stored project is shown in exactly one list, the one of its status.
C9_ListsShowStoreByStatus ==
  pc = "ready" =>
    /\ \A t \in ListTypes :
         LET expected ==
               SelectSeq(projects, LAMBDA ref : heap[ref].status = StatusOf(t))
         IN /\ assignedProjects[t] = expected
            /\ Len(rendered[t]) = Len(expected)
            /\ \A k \in 1..Len(expected) :
                 /\ rendered[t][k].project = expected[k]
                 /\ rendered[t][k].id = heap[expected[k]].id
                 /\ rendered[t][k].h2 = heap[expected[k]].title
                 /\ rendered[t][k].p = heap[expected[k]].description
    /\ \A i \in 1..Len(projects) :
         Cardinality({<<t, k>> \in
                        UNION {{<<u, j>> : j \in 1..Len(rendered[u])} :
                                 u \in ListTypes} :
                        rendered[t][k].project = projects[i]}) = 1

C9_Witness ==
  /\ pc = "ready"
  /\ Len(rendered["active"]) = 1
  /\ Len(rendered["finished"]) = 1
  /\ CalledMove
  /\ notified = <<>>

\* C10 as stated: a dragover whose first type is text/plain turns the list's
\* highlight on, a dragleave or a drop on the list turns it off, and a
\* dragover with another first type leaves it unchanged.
C10_Original ==
  [][\A t \in ListTypes :
       /\ (\E dt \in DataTransfers :
             dt.types[1] = "text/plain" /\ dragOverHandler(t, dt))
            => droppable'[t]
       /\ (dragLeaveHandler(t) \/ \E dt \in DataTransfers : dropHandler(t, dt))
            => ~droppable'[t]
       /\ (\E dt \in DataTransfers :
             dt.types[1] # "text/plain" /\ dragOverHandler(t, dt))
            => droppable'[t] = droppable[t]]_vars

====
